---- MODULE Spec2Model ----
(***************************************************************************)
(* comtypes/client/dynamic.py: Dispatch, _Dispatch, MethodCaller and       *)
(* _Collection, driven against a foreign IDispatch / IEnumVARIANT double   *)
(* whose answers are chosen nondeterministically on every call.            *)
(***************************************************************************)
EXTENDS Integers, Sequences, FiniteSets, TLC

VARIABLES
    proxies,      \* heap of _Dispatch instances; identity = index
    callers,      \* heap of MethodCaller instances; identity = index
    memid,        \* foreign object: member name -> DISPID (stable)
    items,        \* foreign object: the elements of its default enumerable
    skipReports,  \* foreign enumerator: what Skip's return value means
    enums,        \* heap of live IEnumVARIANT cursors: position of each
    colls,        \* heap of _Collection instances; identity = index
    nexts,        \* history: how many next() calls each _Collection has served
    last          \* the latest operation: its input, foreign calls, outcome

vars == <<proxies, callers, memid, items, skipReports, enums, colls, nexts, last>>

-----------------------------------------------------------------------------
(* Bounds of the model *)

MaxProxies == 2
MaxLen == 3
MaxColl == 2
MaxArgs == 2

-----------------------------------------------------------------------------
(* Values *)

IntVal(n) == [t |-> "int", v |-> n]
ObjVal(n) == [t |-> "IDispatch", v |-> n]
ProxyRef(i) == [t |-> "_Dispatch", v |-> i]
CallerRef(i) == [t |-> "MethodCaller", v |-> i]
CollRef(i) == [t |-> "_Collection", v |-> i]
NoneVal == [t |-> "None", v |-> 0]

Names == {"Foo"}
ComObjs == {1}
DISPID_NEWENUM == -4
\* the DISPIDs GetIDsOfNames may answer with: DISPID_VALUE (0) and an ordinary one
DispIds == {0, 3}

DISPATCH_METHOD == "DISPATCH_METHOD"
DISPATCH_PROPERTYGET == "DISPATCH_PROPERTYGET"
DISPATCH_PROPERTYPUT == "DISPATCH_PROPERTYPUT"
DISPATCH_PROPERTYPUTREF == "DISPATCH_PROPERTYPUTREF"

ERRORS_BAD_CONTEXT ==
    { "DISP_E_MEMBERNOTFOUND", "DISP_E_BADPARAMCOUNT", "DISP_E_PARAMNOTOPTIONAL",
      "DISP_E_TYPEMISMATCH", "E_INVALIDARG" }

\* hresults the foreign object may also answer with, outside ERRORS_BAD_CONTEXT
OtherCodes == { "DISP_E_EXCEPTION" }

-----------------------------------------------------------------------------
(* Exceptions *)

NoExc == [type |-> "none", hresult |-> "", text |-> "", details |-> ""]
COMError(h, t, d) == [type |-> "COMError", hresult |-> h, text |-> t, details |-> d]
IndexError == [type |-> "IndexError", hresult |-> "", text |-> "index out of range", details |-> ""]
StopIteration == [type |-> "StopIteration", hresult |-> "", text |-> "", details |-> ""]

COMErrors ==
    { COMError(h, "text", "details") : h \in ERRORS_BAD_CONTEXT \cup OtherCodes }
    \cup { COMError("E_FAIL", "unspecified", "none") }

-----------------------------------------------------------------------------
(* The foreign interface: what one call can answer *)

ReturnValues == { IntVal(7), ObjVal(1) }
SetValues == { IntVal(1), ObjVal(1) }

InvokeOutcomes ==
    { [exc |-> NoExc, value |-> v] : v \in ReturnValues }
    \cup { [exc |-> e, value |-> NoneVal] : e \in COMErrors }

GetIDsOfNamesOutcomes(name) ==
    { [exc |-> NoExc, dispid |-> memid[name]],
      [exc |-> COMError("DISP_E_UNKNOWNNAME", "text", "details"), dispid |-> 0] }

\* records of the foreign calls an operation made, in order, each with what
\* the foreign side answered: the exception raised (or NoExc) and the values returned
CallGetIDsOfNames(obj, name, r) ==
    [f |-> "GetIDsOfNames", obj |-> obj, name |-> name, dispid |-> 0,
     invkind |-> "", args |-> <<>>, exc |-> r.exc,
     ret |-> IF r.exc = NoExc THEN <<IntVal(r.dispid)>> ELSE <<>>]
CallInvoke(obj, dispid, invkind, args, o) ==
    [f |-> "Invoke", obj |-> obj, name |-> "", dispid |-> dispid,
     invkind |-> invkind, args |-> args, exc |-> o.exc,
     ret |-> IF o.exc = NoExc THEN <<o.value>> ELSE <<>>]
CallSkip(e, celt, ret) ==
    [f |-> "Skip", obj |-> e, name |-> "", dispid |-> 0,
     invkind |-> "", args |-> <<IntVal(celt)>>, exc |-> NoExc, ret |-> <<IntVal(ret)>>]
CallNext(e, celt, nx) ==
    [f |-> "Next", obj |-> e, name |-> "", dispid |-> 0,
     invkind |-> "", args |-> <<IntVal(celt)>>, exc |-> NoExc,
     ret |-> <<nx.item, IntVal(nx.fetched)>>]

-----------------------------------------------------------------------------
(* Python dicts *)

EmptyDict == [k \in {} |-> 0]
Put(d, k, v) == [x \in (DOMAIN d) \cup {k} |-> IF x = k THEN v ELSE d[x]]

Op(op, self, name, args, calls, exc, result) ==
    [op |-> op, self |-> self, name |-> name, args |-> args, calls |-> calls,
     exc |-> exc, result |-> result]

-----------------------------------------------------------------------------
(* Dispatch(obj) and _Dispatch.__init__ *)

_Dispatch(comobj) ==
    [_comobj |-> comobj, _ids |-> EmptyDict, __dict__ |-> EmptyDict]

Dispatch_rewrap(heap, obj) ==
    IF obj.t = "_Dispatch"
    THEN [heap |-> Append(heap, _Dispatch(heap[obj.v]._comobj)),
          result |-> ProxyRef(Len(heap) + 1)]
    ELSE IF obj.t = "IDispatch"
    THEN [heap |-> Append(heap, _Dispatch(obj.v)), result |-> ProxyRef(Len(heap) + 1)]
    ELSE [heap |-> heap, result |-> obj]

Dispatch(heap, obj) ==
    IF obj.t = "_Dispatch"
    THEN [heap |-> heap, result |-> obj]
    ELSE IF obj.t = "IDispatch"
    THEN [heap |-> Append(heap, _Dispatch(obj.v)), result |-> ProxyRef(Len(heap) + 1)]
    ELSE [heap |-> heap, result |-> obj]

DispatchArgs ==
    { ProxyRef(i) : i \in 1..Len(proxies) } \cup { ObjVal(o) : o \in ComObjs }
    \cup { IntVal(1) }

CallDispatch(obj) ==
    LET d == Dispatch(proxies, obj) IN
    /\ Len(d.heap) <= MaxProxies
    /\ proxies' = d.heap
    /\ last' = Op("Dispatch", 0, "", <<obj>>, <<>>, NoExc, d.result)
    /\ UNCHANGED <<callers, memid, items, skipReports, enums, colls, nexts>>

-----------------------------------------------------------------------------
(* _Dispatch.__getattr__ and _Dispatch.__setattr__ *)

\* dispid = self._ids.get(name); if not dispid: ...
not_dispid(ids, name) == name \notin DOMAIN ids \/ ids[name] = 0

StoreId_shared(heap, self, name, dispid) ==
    [i \in 1..Len(heap) |-> [heap[i] EXCEPT !._ids = Put(@, name, dispid)]]

\* self._ids[name] = dispid
StoreId(heap, self, name, dispid) ==
    [heap EXCEPT ![self]._ids = Put(@, name, dispid)]

\* the name -> dispid step both handlers open with; r is GetIDsOfNames' answer
resolve(heap, self, name, r) ==
    IF ~ not_dispid(heap[self]._ids, name)
    THEN [heap |-> heap, dispid |-> heap[self]._ids[name], calls |-> <<>>, exc |-> NoExc]
    ELSE IF r.exc # NoExc
    THEN [heap |-> heap, dispid |-> 0,
          calls |-> <<CallGetIDsOfNames(heap[self]._comobj, name, r)>>, exc |-> r.exc]
    ELSE [heap |-> StoreId(heap, self, name, r.dispid), dispid |-> r.dispid,
          calls |-> <<CallGetIDsOfNames(heap[self]._comobj, name, r)>>, exc |-> NoExc]

in_ERRORS_BAD_CONTEXT_only_notfound(hresult) == hresult = "DISP_E_MEMBERNOTFOUND"

in_ERRORS_BAD_CONTEXT_any(hresult) == TRUE

\* if hresult in ERRORS_BAD_CONTEXT
in_ERRORS_BAD_CONTEXT(hresult) == hresult \in ERRORS_BAD_CONTEXT

MethodCaller(_id, _obj) == [_id |-> _id, _obj |-> _obj]

CacheMember_skip(heap, self, name, c) == heap

\* self.__dict__[name] = result
CacheMember(heap, self, name, c) ==
    [heap EXCEPT ![self].__dict__ = Put(@, name, c)]

__getattr___binds_on_success(heap, cs, self, name, r, o) ==
    LET rs == resolve(heap, self, name, r)
        calls == Append(rs.calls,
                        CallInvoke(heap[self]._comobj, rs.dispid, DISPATCH_PROPERTYGET, <<>>, o))
    IN  IF rs.exc # NoExc
        THEN [heap |-> rs.heap, callers |-> cs, calls |-> rs.calls,
              exc |-> rs.exc, result |-> NoneVal]
        ELSE IF o.exc = NoExc
        THEN [heap |-> CacheMember(rs.heap, self, name, Len(cs) + 1),
              callers |-> Append(cs, MethodCaller(rs.dispid, self)),
              calls |-> calls, exc |-> NoExc, result |-> o.value]
        ELSE IF in_ERRORS_BAD_CONTEXT(o.exc.hresult)
        THEN [heap |-> CacheMember(rs.heap, self, name, Len(cs) + 1),
              callers |-> Append(cs, MethodCaller(rs.dispid, self)),
              calls |-> calls, exc |-> NoExc, result |-> CallerRef(Len(cs) + 1)]
        ELSE [heap |-> rs.heap, callers |-> cs, calls |-> calls,
              exc |-> o.exc, result |-> NoneVal]

\* r, o: the answers of GetIDsOfNames and of Invoke, when they are called
__getattr__(heap, cs, self, name, r, o) ==
    LET rs == resolve(heap, self, name, r)
        calls == Append(rs.calls,
                        CallInvoke(heap[self]._comobj, rs.dispid, DISPATCH_PROPERTYGET, <<>>, o))
    IN  IF rs.exc # NoExc
        THEN [heap |-> rs.heap, callers |-> cs, calls |-> rs.calls,
              exc |-> rs.exc, result |-> NoneVal]
        ELSE IF o.exc = NoExc
        THEN [heap |-> rs.heap, callers |-> cs, calls |-> calls,
              exc |-> NoExc, result |-> o.value]
        ELSE IF in_ERRORS_BAD_CONTEXT(o.exc.hresult)
        THEN [heap |-> CacheMember(rs.heap, self, name, Len(cs) + 1),
              callers |-> Append(cs, MethodCaller(rs.dispid, self)),
              calls |-> calls, exc |-> NoExc, result |-> CallerRef(Len(cs) + 1)]
        ELSE [heap |-> rs.heap, callers |-> cs, calls |-> calls,
              exc |-> o.exc, result |-> NoneVal]

\* proxy.name: __getattr__ is the fallback of attribute lookup, called only when
\* the instance __dict__ has no entry of that name
__getattribute__(heap, cs, self, name, r, o) ==
    IF name \in DOMAIN heap[self].__dict__
    THEN [heap |-> heap, callers |-> cs, calls |-> <<>>, exc |-> NoExc,
          result |-> CallerRef(heap[self].__dict__[name])]
    ELSE __getattr__(heap, cs, self, name, r, o)

Unasked == [exc |-> NoExc, value |-> NoneVal]

GetAttr(self, name) ==
    /\ self \in 1..Len(proxies)
    /\ \E r \in GetIDsOfNamesOutcomes(name) :
       \E o \in (IF resolve(proxies, self, name, r).exc # NoExc
                 THEN {Unasked} ELSE InvokeOutcomes) :
           LET g == __getattribute__(proxies, callers, self, name, r, o) IN
           /\ proxies' = g.heap
           /\ callers' = g.callers
           /\ last' = Op("getattr", self, name, <<>>, g.calls, g.exc, g.result)
    /\ UNCHANGED <<memid, items, skipReports, enums, colls, nexts>>

put_retry_never(hresult) == FALSE

put_retry_bad_context(hresult) == hresult \in ERRORS_BAD_CONTEXT

\* if hresult == hres.DISP_E_MEMBERNOTFOUND: pass / else: raise
put_retry(hresult) == hresult = "DISP_E_MEMBERNOTFOUND"

DropId(heap, self, name) ==
    [heap EXCEPT ![self]._ids = [x \in (DOMAIN @) \ {name} |-> @[x]]]

__setattr___forgets_id(heap, self, name, value, r, o1, o2) ==
    LET rs == resolve(heap, self, name, r)
        put == CallInvoke(heap[self]._comobj, rs.dispid, DISPATCH_PROPERTYPUT, <<value>>, o1)
        putref == CallInvoke(heap[self]._comobj, rs.dispid, DISPATCH_PROPERTYPUTREF, <<value>>, o2)
    IN  IF rs.exc # NoExc
        THEN [heap |-> rs.heap, calls |-> rs.calls, exc |-> rs.exc, result |-> NoneVal]
        ELSE IF o1.exc = NoExc
        THEN [heap |-> rs.heap, calls |-> Append(rs.calls, put),
              exc |-> NoExc, result |-> o1.value]
        ELSE IF ~ put_retry(o1.exc.hresult)
        THEN [heap |-> DropId(rs.heap, self, name), calls |-> Append(rs.calls, put),
              exc |-> o1.exc, result |-> NoneVal]
        ELSE [heap |-> rs.heap, calls |-> rs.calls \o <<put, putref>>,
              exc |-> o2.exc, result |-> o2.value]

\* r, o1, o2: the answers of GetIDsOfNames, of the PROPERTYPUT Invoke and of the
\* PROPERTYPUTREF Invoke, when they are called
__setattr__(heap, self, name, value, r, o1, o2) ==
    LET rs == resolve(heap, self, name, r)
        put == CallInvoke(heap[self]._comobj, rs.dispid, DISPATCH_PROPERTYPUT, <<value>>, o1)
        putref == CallInvoke(heap[self]._comobj, rs.dispid, DISPATCH_PROPERTYPUTREF, <<value>>, o2)
    IN  IF rs.exc # NoExc
        THEN [heap |-> rs.heap, calls |-> rs.calls, exc |-> rs.exc, result |-> NoneVal]
        ELSE IF o1.exc = NoExc
        THEN [heap |-> rs.heap, calls |-> Append(rs.calls, put),
              exc |-> NoExc, result |-> o1.value]
        ELSE IF ~ put_retry(o1.exc.hresult)
        THEN [heap |-> rs.heap, calls |-> Append(rs.calls, put),
              exc |-> o1.exc, result |-> NoneVal]
        ELSE [heap |-> rs.heap, calls |-> rs.calls \o <<put, putref>>,
              exc |-> o2.exc, result |-> o2.value]

SetAttr(self, name, value) ==
    /\ self \in 1..Len(proxies)
    /\ \E r \in GetIDsOfNamesOutcomes(name) :
       \E o1 \in (IF resolve(proxies, self, name, r).exc # NoExc
                  THEN {Unasked} ELSE InvokeOutcomes) :
       \E o2 \in (IF o1.exc # NoExc /\ put_retry(o1.exc.hresult)
                  THEN InvokeOutcomes ELSE {o1}) :
           LET s == __setattr__(proxies, self, name, value, r, o1, o2) IN
           /\ proxies' = s.heap
           /\ last' = Op("setattr", self, name, <<value>>, s.calls, s.exc, s.result)
    /\ UNCHANGED <<callers, memid, items, skipReports, enums, colls, nexts>>

-----------------------------------------------------------------------------
(* MethodCaller *)

ArgList(k) == [i \in 1..k |-> IntVal(i)]
ArgLists == { ArgList(k) : k \in 0..MaxArgs }

\* Invoke's kind when the caller passes no _invkind
DefaultInvkind == DISPATCH_METHOD

__call___as_get(heap, cs, c, args, o) ==
    [calls |-> <<CallInvoke(heap[cs[c]._obj]._comobj, cs[c]._id,
                            DISPATCH_PROPERTYGET, args, o)>>,
     exc |-> o.exc, result |-> o.value]

__call___retries_as_get(heap, cs, c, args, o) ==
    LET first == CallInvoke(heap[cs[c]._obj]._comobj, cs[c]._id, DefaultInvkind, args, o)
        second == CallInvoke(heap[cs[c]._obj]._comobj, cs[c]._id,
                             DISPATCH_PROPERTYGET, args, o)
    IN  IF o.exc # NoExc /\ in_ERRORS_BAD_CONTEXT(o.exc.hresult)
        THEN [calls |-> <<first, second>>, exc |-> o.exc, result |-> o.value]
        ELSE [calls |-> <<first>>, exc |-> o.exc, result |-> o.value]

\* return self._obj._comobj.Invoke(self._id, *args)
__call__(heap, cs, c, args, o) ==
    [calls |-> <<CallInvoke(heap[cs[c]._obj]._comobj, cs[c]._id, DefaultInvkind, args, o)>>,
     exc |-> o.exc, result |-> o.value]

CallMethod(c, args) ==
    /\ c \in 1..Len(callers)
    /\ \E o \in InvokeOutcomes :
           LET m == __call__(proxies, callers, c, args, o) IN
           last' = Op("__call__", c, "", args, m.calls, m.exc, m.result)
    /\ UNCHANGED <<proxies, callers, memid, items, skipReports, enums, colls, nexts>>

\* the key Python hands to __getitem__ and __setitem__ for m[i1, ..., ik]: the
\* index itself for k = 1, otherwise one tuple of the k indices
TupleVal(indices) == [t |-> "tuple", v |-> Len(indices)]
subscript(indices) == IF Len(indices) = 1 THEN indices[1] ELSE TupleVal(indices)

IndexLists == { ArgList(k) : k \in 1..MaxArgs }

\* def __getitem__(self, *args): Invoke(self._id, *args, _invkind=DISPATCH_PROPERTYGET)
MethodCaller__getitem__(heap, cs, c, args, o) ==
    [calls |-> <<CallInvoke(heap[cs[c]._obj]._comobj, cs[c]._id,
                            DISPATCH_PROPERTYGET, args, o)>>,
     exc |-> o.exc, result |-> o.value]

\* m[i1, ..., ik]
MemberGetItem(c, indices) ==
    /\ c \in 1..Len(callers)
    /\ \E o \in InvokeOutcomes :
           LET m == MethodCaller__getitem__(proxies, callers, c, <<subscript(indices)>>, o) IN
           last' = Op("MethodCaller.__getitem__", c, "", indices, m.calls, m.exc, m.result)
    /\ UNCHANGED <<proxies, callers, memid, items, skipReports, enums, colls, nexts>>

\* comtypes._is_object: a COM pointer, or an object with a _comobj attribute
_is_object(value) == value.t \in {"IDispatch", "_Dispatch"}

MethodCaller__setitem___always_put(heap, cs, c, args, o) ==
    [calls |-> <<CallInvoke(heap[cs[c]._obj]._comobj, cs[c]._id,
                            DISPATCH_PROPERTYPUT, args, o)>>,
     exc |-> o.exc, result |-> NoneVal]

\* def __setitem__(self, *args): PUTREF when _is_object(args[-1]), else PUT
MethodCaller__setitem__(heap, cs, c, args, o) ==
    LET invkind == IF _is_object(args[Len(args)])
                   THEN DISPATCH_PROPERTYPUTREF
                   ELSE DISPATCH_PROPERTYPUT
    IN  [calls |-> <<CallInvoke(heap[cs[c]._obj]._comobj, cs[c]._id, invkind, args, o)>>,
         exc |-> o.exc, result |-> NoneVal]

MemberSetValues == SetValues \cup { ProxyRef(1) }

\* m[i1, ..., ik] = value
MemberSetItem(c, indices, value) ==
    /\ c \in 1..Len(callers)
    /\ \E o \in InvokeOutcomes :
           LET m == MethodCaller__setitem__(proxies, callers, c,
                                            <<subscript(indices), value>>, o) IN
           last' = Op("MethodCaller.__setitem__", c, "", Append(indices, value),
                      m.calls, m.exc, m.result)
    /\ UNCHANGED <<proxies, callers, memid, items, skipReports, enums, colls, nexts>>


-----------------------------------------------------------------------------
(* The foreign enumerator (IEnumVARIANT) over the default enumerable *)

Enumerable(n) == [i \in 1..n |-> IntVal(i)]

Min(a, b) == IF a < b THEN a ELSE b

\* Next(1) on a cursor at position pos: (item, fetched) and the new position
EnumNext(pos) ==
    IF pos < Len(items)
    THEN [item |-> items[pos + 1], fetched |-> 1, pos |-> pos + 1]
    ELSE [item |-> NoneVal, fetched |-> 0, pos |-> pos]

\* Skip(celt) on a cursor at position pos. Its return value is either the number
\* of positions advanced ("count") or a status, 0 when all celt positions were
\* skipped and 1 when the end came first ("status")
EnumSkip(pos, celt) ==
    LET adv == Min(celt, Len(items) - pos) IN
    [ret |-> IF skipReports = "count" THEN adv
             ELSE IF adv = celt THEN 0 ELSE 1,
     pos |-> pos + adv]

NewEnumOutcomes ==
    { [exc |-> NoExc, value |-> NoneVal],
      [exc |-> COMError("DISP_E_MEMBERNOTFOUND", "text", "details"), value |-> NoneVal] }

-----------------------------------------------------------------------------
(* _Dispatch.__enum, __getitem__, __iter__ and _Collection *)

__enum_shared(es) ==
    IF Len(es) > 0 THEN [enums |-> es, e |-> 1]
    ELSE [enums |-> Append(es, 0), e |-> Len(es) + 1]

__enum_reuses_last(es) ==
    IF Len(es) > 0 THEN [enums |-> es, e |-> Len(es)]
    ELSE [enums |-> Append(es, 0), e |-> Len(es) + 1]

\* e = self._comobj.Invoke(-4); return e.QueryInterface(IEnumVARIANT):
\* a new cursor at the start
__enum(es) == [enums |-> Append(es, 0), e |-> Len(es) + 1]

skips_index_above_one(index) == index > 1

skips_from_zero(index) == index >= 0

\* if index > 0:
skips(index) == index > 0

\* ne: the answer of Invoke(DISPID_NEWENUM)
__getitem__(heap, es, self, index, ne) ==
    LET newenum == CallInvoke(heap[self]._comobj, DISPID_NEWENUM, DefaultInvkind, <<>>, ne)
        en == __enum(es)
        sk == EnumSkip(en.enums[en.e], index)
        es1 == IF skips(index) THEN [en.enums EXCEPT ![en.e] = sk.pos] ELSE en.enums
        calls1 == IF skips(index) THEN <<newenum, CallSkip(en.e, index, sk.ret)>> ELSE <<newenum>>
        nx == EnumNext(es1[en.e])
        es2 == [es1 EXCEPT ![en.e] = nx.pos]
    IN  IF ne.exc # NoExc
        THEN [enums |-> es, calls |-> <<newenum>>, exc |-> ne.exc, result |-> NoneVal]
        ELSE IF skips(index) /\ 0 # sk.ret
        THEN [enums |-> es1, calls |-> calls1, exc |-> IndexError, result |-> NoneVal]
        ELSE IF nx.fetched = 0
        THEN [enums |-> es2, calls |-> Append(calls1, CallNext(en.e, 1, nx)),
              exc |-> IndexError, result |-> NoneVal]
        ELSE [enums |-> es2, calls |-> Append(calls1, CallNext(en.e, 1, nx)),
              exc |-> NoExc, result |-> nx.item]

Indices == (-2)..(MaxLen + 1)

\* the cursor __getitem__ acquired is its local variable: released on return
GetItem(self, index) ==
    /\ self \in 1..Len(proxies)
    /\ \E ne \in NewEnumOutcomes :
           LET g == __getitem__(proxies, enums, self, index, ne) IN
           /\ enums' = SubSeq(g.enums, 1, Len(enums))
           /\ last' = Op("__getitem__", self, "", <<IntVal(index)>>, g.calls, g.exc, g.result)
    /\ UNCHANGED <<proxies, callers, memid, items, skipReports, colls, nexts>>

_Collection(enum) == [enum |-> enum]

\* return _Collection(self.__enum())
__iter__(heap, es, cs, self, ne) ==
    LET newenum == CallInvoke(heap[self]._comobj, DISPID_NEWENUM, DefaultInvkind, <<>>, ne)
        en == __enum(es)
    IN  IF ne.exc # NoExc
        THEN [enums |-> es, colls |-> cs, calls |-> <<newenum>>,
              exc |-> ne.exc, result |-> NoneVal]
        ELSE [enums |-> en.enums, colls |-> Append(cs, _Collection(en.e)),
              calls |-> <<newenum>>, exc |-> NoExc, result |-> CollRef(Len(cs) + 1)]

Iter(self) ==
    /\ self \in 1..Len(proxies)
    /\ Len(colls) < MaxColl
    /\ \E ne \in NewEnumOutcomes :
           LET it == __iter__(proxies, enums, colls, self, ne) IN
           /\ enums' = it.enums
           /\ colls' = it.colls
           /\ nexts' = IF Len(it.colls) > Len(colls) THEN Append(nexts, 0) ELSE nexts
           /\ last' = Op("__iter__", self, "", <<>>, it.calls, it.exc, it.result)
    /\ UNCHANGED <<proxies, callers, memid, items, skipReports>>

next_never_stops(nx) ==
    [exc |-> NoExc, result |-> nx.item]

\* if fetched: return item / raise StopIteration
next_result(nx) ==
    IF nx.fetched # 0 THEN [exc |-> NoExc, result |-> nx.item]
    ELSE [exc |-> StopIteration, result |-> NoneVal]

next_restarts(es, cs, c) ==
    LET nx == EnumNext(es[cs[c].enum])
        r == next_result(nx)
    IN  [enums |-> [es EXCEPT ![cs[c].enum] = IF nx.fetched = 0 THEN 0 ELSE nx.pos],
         calls |-> <<CallNext(cs[c].enum, 1, nx)>>, exc |-> r.exc, result |-> r.result]

\* item, fetched = self.enum.Next(1)
next(es, cs, c) ==
    LET nx == EnumNext(es[cs[c].enum])
        r == next_result(nx)
    IN  [enums |-> [es EXCEPT ![cs[c].enum] = nx.pos],
         calls |-> <<CallNext(cs[c].enum, 1, nx)>>, exc |-> r.exc, result |-> r.result]

\* a caller goes on calling next() at most MaxNexts times
MaxNexts == MaxLen + 2

CollNext(c) ==
    /\ c \in 1..Len(colls)
    /\ nexts[c] < MaxNexts
    /\ LET n == next(enums, colls, c) IN
       /\ enums' = n.enums
       /\ nexts' = [nexts EXCEPT ![c] = @ + 1]
       /\ last' = Op("next", c, "", <<>>, n.calls, n.exc, n.result)
    /\ UNCHANGED <<proxies, callers, memid, items, skipReports, colls>>

-----------------------------------------------------------------------------
(* Specifications *)

NoOp == Op("", 0, "", <<>>, <<>>, NoExc, NoneVal)

\* attribute access on freshly wrapped objects
Init ==
    /\ proxies = <<>>
    /\ callers = <<>>
    /\ memid \in [Names -> DispIds]
    /\ items = Enumerable(MaxLen)
    /\ skipReports = "status"
    /\ enums = <<>>
    /\ colls = <<>>
    /\ nexts = <<>>
    /\ last = NoOp

Next ==
    \/ \E obj \in DispatchArgs : CallDispatch(obj)
    \/ \E self \in 1..Len(proxies), name \in Names : GetAttr(self, name)
    \/ \E self \in 1..Len(proxies), name \in Names, value \in SetValues :
           SetAttr(self, name, value)
    \/ \E c \in 1..Len(callers), args \in ArgLists : CallMethod(c, args)
    \/ \E self \in 1..Len(proxies), index \in Indices : GetItem(self, index)

Spec == Init /\ [][Next]_vars

\* a bound member of one wrapped object: called, indexed and index-assigned
InitMember ==
    /\ memid \in [Names -> DispIds]
    /\ proxies = <<[_comobj |-> 1, _ids |-> [n \in {"Foo"} |-> memid[n]],
                    __dict__ |-> [n \in {"Foo"} |-> 1]]>>
    /\ callers = <<MethodCaller(memid["Foo"], 1)>>
    /\ items = Enumerable(MaxLen)
    /\ skipReports = "status"
    /\ enums = <<>>
    /\ colls = <<>>
    /\ nexts = <<>>
    /\ last = NoOp

NextMember ==
    \/ \E self \in 1..Len(proxies), name \in Names : GetAttr(self, name)
    \/ \E c \in 1..Len(callers), args \in ArgLists : CallMethod(c, args)
    \/ \E c \in 1..Len(callers), indices \in IndexLists : MemberGetItem(c, indices)
    \/ \E c \in 1..Len(callers), indices \in IndexLists, value \in MemberSetValues :
           MemberSetItem(c, indices, value)

SpecMember == InitMember /\ [][NextMember]_vars

\* indexing and iteration of one wrapped object
InitEnum ==
    /\ proxies = <<_Dispatch(1)>>
    /\ callers = <<>>
    /\ memid \in [Names -> {3}]
    /\ items \in { Enumerable(n) : n \in 0..MaxLen }
    /\ skipReports \in {"status", "count"}
    /\ enums = <<>>
    /\ colls = <<>>
    /\ nexts = <<>>
    /\ last = NoOp

NextEnum ==
    \/ \E self \in 1..Len(proxies), index \in Indices : GetItem(self, index)
    \/ \E self \in 1..Len(proxies) : Iter(self)
    \/ \E c \in 1..Len(colls) : CollNext(c)

SpecEnum == InitEnum /\ [][NextEnum]_vars

-----------------------------------------------------------------------------
(* Properties *)

Invokes(calls) == SelectSeq(calls, LAMBDA c : c.f = "Invoke")
Resolves(calls) == SelectSeq(calls, LAMBDA c : c.f = "GetIDsOfNames")
IsAttrOp(l) == l.op \in {"getattr", "setattr"}
ProxyIds == 1..Len(proxies)

\* C1: once GetIDsOfNames has succeeded for a name on a proxy (the name is in
\* its _ids, whatever the DISPID, 0 included), no later getattr or setattr of
\* that name on that proxy calls GetIDsOfNames again.
C1_CacheOnce ==
    [][ \A p \in ProxyIds, n \in Names :
          (n \in DOMAIN proxies[p]._ids /\ IsAttrOp(last') /\ last'.self = p
             /\ last'.name = n)
          => Resolves(last'.calls) = <<>> ]_vars

\* C2: a getattr whose PROPERTYGET Invoke fails with a code of ERRORS_BAD_CONTEXT
\* does not raise and returns a MethodCaller of this proxy bound to the DISPID
\* resolved for the name; calling a MethodCaller with args issues exactly one
\* DISPATCH_METHOD Invoke on the owner's object, on the DISPID its name is
\* resolved to, with exactly those args, and hands back the foreign answer.
C2_GetFallsBackToBoundMember ==
    /\ (/\ last.op = "getattr"
        /\ Invokes(last.calls) # <<>>
        /\ Invokes(last.calls)[1].invkind = DISPATCH_PROPERTYGET
        /\ Invokes(last.calls)[1].exc.hresult \in ERRORS_BAD_CONTEXT)
       => /\ last.exc = NoExc
          /\ last.result.t = "MethodCaller"
          /\ last.result.v \in 1..Len(callers)
          /\ callers[last.result.v]._obj = last.self
          /\ last.name \in DOMAIN proxies[last.self]._ids
          /\ callers[last.result.v]._id = proxies[last.self]._ids[last.name]
          /\ Invokes(last.calls)[1].dispid = proxies[last.self]._ids[last.name]
    /\ last.op = "__call__"
       => /\ Len(last.calls) = 1
          /\ last.calls[1].f = "Invoke"
          /\ last.calls[1].invkind = DISPATCH_METHOD
          /\ last.calls[1].args = last.args
          /\ last.calls[1].obj = proxies[callers[last.self]._obj]._comobj
          /\ \A p \in ProxyIds, n \in Names :
                (n \in DOMAIN proxies[p].__dict__ /\ proxies[p].__dict__[n] = last.self)
                => last.calls[1].dispid = proxies[p]._ids[n]
          /\ last.exc = last.calls[1].exc
          /\ last.exc = NoExc => <<last.result>> = last.calls[1].ret

\* a call(1, 2) on a bound member that a failed GET produced returned the
\* foreign object's answer
C2_Witness ==
    /\ last.op = "__call__"
    /\ last.args = <<IntVal(1), IntVal(2)>>
    /\ last.exc = NoExc
    /\ last.result = IntVal(7)
    /\ \E p \in ProxyIds, n \in Names :
          n \in DOMAIN proxies[p].__dict__ /\ proxies[p].__dict__[n] = last.self

\* every MethodCaller ever constructed is the cached bound member of exactly one
\* (proxy, name) pair, and of its own proxy
BoundMembersUnique ==
    /\ \A p \in ProxyIds, n \in Names :
          n \in DOMAIN proxies[p].__dict__
          => /\ proxies[p].__dict__[n] \in 1..Len(callers)
             /\ callers[proxies[p].__dict__[n]]._obj = p
    /\ \A c \in 1..Len(callers) :
          Cardinality({ pn \in ProxyIds \X Names :
                          /\ pn[2] \in DOMAIN proxies[pn[1]].__dict__
                          /\ proxies[pn[1]].__dict__[pn[2]] = c }) = 1
    /\ (last.op = "getattr" /\ last.result.t = "MethodCaller")
       => /\ last.name \in DOMAIN proxies[last.self].__dict__
          /\ proxies[last.self].__dict__[last.name] = last.result.v

\* C3: at most one MethodCaller is constructed per (proxy, name), and once a
\* getattr has returned one, it stays that name's bound member through every
\* operation, and every later getattr of the name returns that same object
\* without any foreign call (no Invoke, no GetIDsOfNames).
C3_BoundMemberPermanent ==
    /\ []BoundMembersUnique
    /\ [][ \A p \in ProxyIds, n \in Names :
             n \in DOMAIN proxies[p].__dict__
             => /\ n \in DOMAIN proxies'[p].__dict__
                /\ proxies'[p].__dict__[n] = proxies[p].__dict__[n]
                /\ callers'[proxies[p].__dict__[n]] = callers[proxies[p].__dict__[n]]
                /\ (last'.op = "getattr" /\ last'.self = p /\ last'.name = n)
                   => /\ last'.result = CallerRef(proxies[p].__dict__[n])
                      /\ last'.exc = NoExc
                      /\ last'.calls = <<>> ]_vars

\* a getattr answered from the cached bound member, with no foreign call
C3_Witness ==
    /\ last.op = "getattr"
    /\ last.calls = <<>>
    /\ last.result.t = "MethodCaller"
    /\ last.result.v \in 1..Len(callers)

\* C4: when the PROPERTYPUT Invoke of a setattr fails with DISP_E_MEMBERNOTFOUND,
\* the object receives for that setattr exactly two Invokes, PROPERTYPUT then
\* PROPERTYPUTREF, both on the same object and DISPID and with the same single
\* value (only the name's resolution may precede them), and the setattr
\* succeeds when the PROPERTYPUTREF is accepted.
C4_PutThenPutRef ==
    (/\ last.op = "setattr"
     /\ Invokes(last.calls) # <<>>
     /\ Invokes(last.calls)[1].exc.hresult = "DISP_E_MEMBERNOTFOUND")
    => LET inv == Invokes(last.calls) IN
       /\ Len(inv) = 2
       /\ inv[1].invkind = DISPATCH_PROPERTYPUT
       /\ inv[2].invkind = DISPATCH_PROPERTYPUTREF
       /\ inv[1].args = last.args
       /\ inv[2].args = last.args
       /\ inv[2].dispid = inv[1].dispid
       /\ inv[2].obj = inv[1].obj
       /\ inv[1].obj = proxies[last.self]._comobj
       /\ inv[1].dispid = proxies[last.self]._ids[last.name]
       /\ Len(last.calls) = Len(inv) + Len(Resolves(last.calls))
       /\ Len(Resolves(last.calls)) <= 1
       /\ last.calls[Len(last.calls)] = inv[2]
       /\ last.calls[Len(last.calls) - 1] = inv[1]
       /\ inv[2].exc = NoExc => last.exc = NoExc

\* a setattr that succeeded by PROPERTYPUT (member not found) then PROPERTYPUTREF
C4_Witness ==
    /\ last.op = "setattr"
    /\ Len(Invokes(last.calls)) = 2
    /\ Invokes(last.calls)[1].exc.hresult = "DISP_E_MEMBERNOTFOUND"
    /\ Invokes(last.calls)[2].exc = NoExc
    /\ last.exc = NoExc

FatalGet(l) ==
    /\ l.op = "getattr"
    /\ Invokes(l.calls) # <<>>
    /\ Invokes(l.calls)[1].exc # NoExc
    /\ Invokes(l.calls)[1].exc.hresult \notin ERRORS_BAD_CONTEXT

\* C5: a getattr whose PROPERTYGET Invoke fails with a code outside
\* ERRORS_BAD_CONTEXT raises that very error (code, text, details), issues no
\* second Invoke, constructs no MethodCaller and caches nothing for the name;
\* and a getattr of a name with no cached bound member, once the name is
\* resolved, always issues a plain PROPERTYGET.
C5_FatalGetPropagates ==
    /\ [](FatalGet(last)
          => /\ last.exc = Invokes(last.calls)[1].exc
             /\ Len(Invokes(last.calls)) = 1
             /\ last.name \notin DOMAIN proxies[last.self].__dict__)
    /\ [][ /\ FatalGet(last')
              => /\ callers' = callers
                 /\ proxies'[last'.self].__dict__ = proxies[last'.self].__dict__
           /\ (/\ last'.op = "getattr"
               /\ last'.self \in ProxyIds
               /\ last'.name \notin DOMAIN proxies[last'.self].__dict__
               /\ \A i \in 1..Len(last'.calls) :
                     last'.calls[i].f = "GetIDsOfNames" => last'.calls[i].exc = NoExc)
              => /\ Len(Invokes(last'.calls)) = 1
                 /\ Invokes(last'.calls)[1].invkind = DISPATCH_PROPERTYGET ]_vars

\* a getattr of a name resolved earlier raised the foreign object's fatal error
\* with its text and details, and no bound member exists
C5_Witness ==
    /\ FatalGet(last)
    /\ last.exc = COMError("E_FAIL", "unspecified", "none")
    /\ Resolves(last.calls) = <<>>
    /\ callers = <<>>

IndexingAgrees(reports) ==
    (/\ skipReports = reports
     /\ last.op = "__getitem__"
     /\ last.calls[1].exc = NoExc
     /\ last.args[1].v >= 0)
    => IF last.args[1].v < Len(items)
       THEN last.exc = NoExc /\ last.result = items[last.args[1].v + 1]
       ELSE last.exc = IndexError

C7_IterationOrder ==
    last.op = "next"
    => IF nexts[last.self] <= Len(items)
       THEN last.exc = NoExc /\ last.result = items[nexts[last.self]]
       ELSE last.exc = StopIteration /\ last.result = NoneVal

\* the third next() over a 2-element enumerable raised StopIteration
C7_Witness ==
    /\ last.op = "next"
    /\ Len(items) = 2
    /\ nexts[last.self] = 3
    /\ last.exc = StopIteration

\* C8: every __iter__ gives its _Collection a cursor of its own that starts at
\* the first element: no two _Collections share a cursor, and after any
\* interleaving of next() calls and proxy[i] accesses each cursor stands exactly
\* where its own _Collection's next() calls have taken it.
C8_IndependentIterations ==
    /\ Len(nexts) = Len(colls)
    /\ \A c \in 1..Len(colls) :
          /\ colls[c].enum \in 1..Len(enums)
          /\ enums[colls[c].enum] = Min(nexts[c], Len(items))
    /\ \A c, d \in 1..Len(colls) : c # d => colls[c].enum # colls[d].enum
    /\ (last.op = "__iter__" /\ last.exc = NoExc)
       => /\ last.result = CollRef(Len(colls))
          /\ nexts[Len(colls)] = 0

\* two iterations of one proxy interleaved: the second yields its first element
\* after the first has yielded two
C8_Witness ==
    /\ Len(colls) = 2
    /\ Len(items) = 3
    /\ nexts = <<2, 1>>
    /\ last.op = "next"
    /\ last.self = 2
    /\ last.result = items[1]

\* C9: Dispatch of a _Dispatch instance returns that very instance and creates
\* nothing, its _ids and bound members untouched; Dispatch of a raw IDispatch
\* pointer returns a newly constructed _Dispatch on that object with an empty
\* _ids (and no bound member), every existing instance untouched.
C9_IdempotentWrap ==
    [][ last'.op = "Dispatch"
        => /\ last'.args[1].t = "_Dispatch"
              => /\ last'.result = last'.args[1]
                 /\ proxies' = proxies
                 /\ callers' = callers
           /\ last'.args[1].t = "IDispatch"
              => /\ last'.result = ProxyRef(Len(proxies) + 1)
                 /\ Len(proxies') = Len(proxies) + 1
                 /\ proxies'[Len(proxies) + 1]._comobj = last'.args[1].v
                 /\ DOMAIN proxies'[Len(proxies) + 1]._ids = {}
                 /\ DOMAIN proxies'[Len(proxies) + 1].__dict__ = {}
                 /\ \A p \in ProxyIds : proxies'[p] = proxies[p]
                 /\ callers' = callers ]_vars

\* Dispatch of a proxy that holds a resolved DISPID and a bound member returned
\* that same proxy
C9_Witness ==
    /\ last.op = "Dispatch"
    /\ last.args[1].t = "_Dispatch"
    /\ last.result = last.args[1]
    /\ DOMAIN proxies[last.result.v]._ids # {}
    /\ DOMAIN proxies[last.result.v].__dict__ # {}

\* C10: Dispatch of a raw pointer never returns an existing instance, and a
\* getattr or setattr on one proxy leaves every other proxy's _ids, __dict__
\* and MethodCallers as they were; so a proxy whose own _ids lacks a name calls
\* GetIDsOfNames for it, whatever another proxy of the same object has cached.
C10_IndependentProxies ==
    [][ /\ (last'.op = "Dispatch" /\ last'.args[1].t = "IDispatch")
           => last'.result.v \notin ProxyIds
        /\ IsAttrOp(last')
           => /\ \A q \in ProxyIds : q # last'.self => proxies'[q] = proxies[q]
              /\ \A c \in 1..Len(callers) : callers'[c] = callers[c]
              /\ \A c \in 1..Len(callers') : c > Len(callers) => callers'[c]._obj = last'.self
              /\ (/\ last'.name \notin DOMAIN proxies[last'.self]._ids
                  /\ last'.name \notin DOMAIN proxies[last'.self].__dict__)
                 => /\ last'.calls # <<>>
                    /\ last'.calls[1].f = "GetIDsOfNames" ]_vars

\* two proxies of the same object: the second resolved the name for itself
\* while the first already held its DISPID and a bound member
C10_Witness ==
    /\ Len(proxies) = 2
    /\ proxies[1]._comobj = proxies[2]._comobj
    /\ \E n \in Names :
          /\ n \in DOMAIN proxies[1]._ids
          /\ n \in DOMAIN proxies[1].__dict__
          /\ n \notin DOMAIN proxies[2].__dict__
          /\ last.op = "getattr"
          /\ last.self = 2
          /\ last.name = n
          /\ last.calls # <<>>
          /\ last.calls[1].f = "GetIDsOfNames"
          /\ last.calls[1].exc = NoExc

\* C11: a setattr whose PROPERTYPUT Invoke fails with any code but
\* DISP_E_MEMBERNOTFOUND (the other ERRORS_BAD_CONTEXT codes included) raises
\* that very error and issues no PROPERTYPUTREF; and when the PROPERTYPUTREF
\* retry fails, its error is raised and no third Invoke follows.
C11_FatalPutPropagates ==
    (last.op = "setattr" /\ Invokes(last.calls) # <<>>)
    => LET inv == Invokes(last.calls) IN
       /\ inv[1].invkind = DISPATCH_PROPERTYPUT
       /\ (inv[1].exc # NoExc /\ inv[1].exc.hresult # "DISP_E_MEMBERNOTFOUND")
          => /\ Len(inv) = 1
             /\ last.exc = inv[1].exc
       /\ Len(inv) > 1
          => /\ Len(inv) = 2
             /\ inv[1].exc.hresult = "DISP_E_MEMBERNOTFOUND"
             /\ inv[2].invkind = DISPATCH_PROPERTYPUTREF
             /\ last.exc = inv[2].exc

\* a setattr raised the DISP_E_TYPEMISMATCH of its PROPERTYPUT without a retry
C11_Witness ==
    /\ last.op = "setattr"
    /\ Len(Invokes(last.calls)) = 1
    /\ Invokes(last.calls)[1].exc.hresult = "DISP_E_TYPEMISMATCH"
    /\ last.exc = COMError("DISP_E_TYPEMISMATCH", "text", "details")

\* C12: one getattr issues at most one GetIDsOfNames and one Invoke, one setattr
\* at most one GetIDsOfNames and two Invokes, all Invokes of an operation on the
\* DISPID held in _ids for the name; and no operation, failed or not, removes or
\* changes a DISPID once it is in _ids.
C12_BoundedRetriesKeepIdentifier ==
    /\ [](IsAttrOp(last)
          => /\ Len(Resolves(last.calls)) <= 1
             /\ last.op = "getattr" => Len(Invokes(last.calls)) <= 1
             /\ last.op = "setattr" => Len(Invokes(last.calls)) <= 2
             /\ Len(last.calls) = Len(Resolves(last.calls)) + Len(Invokes(last.calls))
             /\ Invokes(last.calls) # <<>>
                => /\ last.name \in DOMAIN proxies[last.self]._ids
                   /\ \A i \in 1..Len(Invokes(last.calls)) :
                         /\ Invokes(last.calls)[i].dispid
                              = proxies[last.self]._ids[last.name]
                         /\ Invokes(last.calls)[i].obj = proxies[last.self]._comobj)
    /\ [][ \A p \in ProxyIds, n \in Names :
             n \in DOMAIN proxies[p]._ids
             => /\ n \in DOMAIN proxies'[p]._ids
                /\ proxies'[p]._ids[n] = proxies[p]._ids[n] ]_vars

\* a setattr on an already resolved name made its two attempts, both failed,
\* and the name's DISPID is still the one both attempts used
C12_Witness ==
    /\ last.op = "setattr"
    /\ Resolves(last.calls) = <<>>
    /\ Len(Invokes(last.calls)) = 2
    /\ last.exc # NoExc
    /\ proxies[last.self]._ids[last.name] = Invokes(last.calls)[2].dispid

ResolveFailed(l) ==
    /\ IsAttrOp(l)
    /\ Resolves(l.calls) # <<>>
    /\ Resolves(l.calls)[1].exc # NoExc

\* C13: a getattr or setattr whose GetIDsOfNames fails raises that error, issues
\* no Invoke and leaves _ids, __dict__ and the MethodCallers as they were; and
\* the next getattr or setattr of that name on that proxy calls GetIDsOfNames
\* again.
C13_ResolutionFailureNotCached ==
    /\ [](ResolveFailed(last)
          => /\ last.exc = Resolves(last.calls)[1].exc
             /\ Invokes(last.calls) = <<>>
             /\ Len(last.calls) = 1)
    /\ [][ /\ ResolveFailed(last') => (proxies' = proxies /\ callers' = callers)
           /\ (/\ ResolveFailed(last)
               /\ IsAttrOp(last')
               /\ last'.self = last.self
               /\ last'.name = last.name)
              => /\ last'.calls # <<>>
                 /\ last'.calls[1].f = "GetIDsOfNames" ]_vars

MemberInvoke(l) == l.calls[1]

\* C14: m[i1, ..., ik] = value on a MethodCaller issues exactly one Invoke, on
\* the MethodCaller's DISPID and its proxy's foreign object, of kind
\* DISPATCH_PROPERTYPUTREF if and only if value is an object and
\* DISPATCH_PROPERTYPUT otherwise; an error of that Invoke, member-not-found
\* included, is raised to the caller and no second Invoke follows.
C14_SetItemKindFromValue ==
    last.op = "MethodCaller.__setitem__"
    => LET value == last.args[Len(last.args)] IN
       /\ Len(last.calls) = 1
       /\ MemberInvoke(last).f = "Invoke"
       /\ MemberInvoke(last).dispid = callers[last.self]._id
       /\ MemberInvoke(last).obj = proxies[callers[last.self]._obj]._comobj
       /\ MemberInvoke(last).invkind \in {DISPATCH_PROPERTYPUT, DISPATCH_PROPERTYPUTREF}
       /\ MemberInvoke(last).invkind = DISPATCH_PROPERTYPUTREF <=> _is_object(value)
       /\ last.exc = MemberInvoke(last).exc

C14_Witness ==
    /\ last.op = "MethodCaller.__setitem__"
    /\ Len(last.args) = 3
    /\ last.args[3] = ProxyRef(1)
    /\ Len(last.calls) = 1
    /\ MemberInvoke(last).invkind = DISPATCH_PROPERTYPUTREF
    /\ last.exc # NoExc
    /\ last.exc.hresult = "DISP_E_MEMBERNOTFOUND"

\* C15: for every k >= 1, m[i1, ..., ik] issues one DISPATCH_PROPERTYGET Invoke
\* on the MethodCaller's DISPID whose arguments are exactly (i1, ..., ik), and
\* m[i1, ..., ik] = v issues one put Invoke on that DISPID whose arguments are
\* exactly (i1, ..., ik, v).
C15_IndicesAreTheArguments ==
    /\ last.op = "MethodCaller.__getitem__"
       => /\ Len(last.calls) = 1
          /\ MemberInvoke(last).f = "Invoke"
          /\ MemberInvoke(last).dispid = callers[last.self]._id
          /\ MemberInvoke(last).invkind = DISPATCH_PROPERTYGET
          /\ MemberInvoke(last).args = last.args
    /\ last.op = "MethodCaller.__setitem__"
       => /\ Len(last.calls) = 1
          /\ MemberInvoke(last).f = "Invoke"
          /\ MemberInvoke(last).dispid = callers[last.self]._id
          /\ MemberInvoke(last).invkind \in {DISPATCH_PROPERTYPUT, DISPATCH_PROPERTYPUTREF}
          /\ MemberInvoke(last).args = last.args

\* C16: calling a MethodCaller issues exactly one Invoke, of the default kind
\* DISPATCH_METHOD, on its DISPID with the caller's arguments; whatever error
\* that Invoke raises, the codes of ERRORS_BAD_CONTEXT included, is raised
\* unchanged with no second Invoke; and the call changes no proxy and no
\* MethodCaller, so the MethodCaller stays in its proxy's __dict__.
C16_FailedCallIsTerminal ==
    /\ [](last.op = "__call__"
          => /\ Len(last.calls) = 1
             /\ MemberInvoke(last).f = "Invoke"
             /\ MemberInvoke(last).invkind = DISPATCH_METHOD
             /\ MemberInvoke(last).dispid = callers[last.self]._id
             /\ MemberInvoke(last).obj = proxies[callers[last.self]._obj]._comobj
             /\ MemberInvoke(last).args = last.args
             /\ last.exc = MemberInvoke(last).exc
             /\ \E n \in DOMAIN proxies[callers[last.self]._obj].__dict__ :
                    proxies[callers[last.self]._obj].__dict__[n] = last.self)
    /\ [][last'.op = "__call__" => (proxies' = proxies /\ callers' = callers)]_vars

C16_Witness ==
    /\ last.op = "__call__"
    /\ Len(last.calls) = 1
    /\ last.exc # NoExc
    /\ last.exc.hresult = "DISP_E_MEMBERNOTFOUND"
    /\ proxies[callers[last.self]._obj].__dict__["Foo"] = last.self

GotValue(l) ==
    /\ l.op = "getattr"
    /\ Invokes(l.calls) # <<>>
    /\ Invokes(l.calls)[1].exc = NoExc

\* C17: a getattr is answered without a foreign call only by a cached
\* MethodCaller, never by a value; a getattr whose resolution succeeds issues
\* exactly one DISPATCH_PROPERTYGET Invoke, and when that succeeds it returns
\* the value this Invoke returned, creates no MethodCaller and adds nothing to
\* __dict__; a name enters __dict__ only by a getattr whose GET failed with a
\* code of ERRORS_BAD_CONTEXT, so neither a successful GET nor a setattr stops
\* the next getattr from issuing a fresh GET.
C17_ValuesNeverCached ==
    /\ [](last.op = "getattr"
          => /\ last.calls = <<>>
                => /\ last.exc = NoExc
                   /\ last.result.t = "MethodCaller"
             /\ (last.calls # <<>> /\ ~ ResolveFailed(last))
                => /\ Len(Invokes(last.calls)) = 1
                   /\ Invokes(last.calls)[1].invkind = DISPATCH_PROPERTYGET
                   /\ Invokes(last.calls)[1].args = <<>>
             /\ GotValue(last)
                => /\ last.exc = NoExc
                   /\ <<last.result>> = Invokes(last.calls)[1].ret
                   /\ last.name \notin DOMAIN proxies[last.self].__dict__)
    /\ [][ /\ (GotValue(last') /\ last' # last)
              => /\ callers' = callers
                 /\ \A p \in 1..Len(proxies) : proxies'[p].__dict__ = proxies[p].__dict__
           /\ \A p \in 1..Len(proxies) : \A n \in Names :
                (n \notin DOMAIN proxies[p].__dict__ /\ n \in DOMAIN proxies'[p].__dict__)
                => /\ last'.op = "getattr" /\ last'.self = p /\ last'.name = n
                   /\ Invokes(last'.calls) # <<>>
                   /\ Invokes(last'.calls)[1].exc # NoExc
                   /\ Invokes(last'.calls)[1].exc.hresult \in ERRORS_BAD_CONTEXT
           /\ (/\ GotValue(last)
               /\ last'.op = "getattr"
               /\ last'.self = last.self
               /\ last'.name = last.name)
              => last'.calls # <<>> ]_vars

C17_Witness ==
    /\ GotValue(last)
    /\ Resolves(last.calls) = <<>>
    /\ last.result = IntVal(7)
    /\ last.name \notin DOMAIN proxies[last.self].__dict__

Max(a, b) == IF a > b THEN a ELSE b

\* what proxy[index] gives on a new cursor over items, whatever came before
IndexOutcome(index) ==
    IF skipReports = "status"
    THEN IF Max(index, 0) < Len(items)
         THEN [exc |-> NoExc, result |-> items[Max(index, 0) + 1]]
         ELSE [exc |-> IndexError, result |-> NoneVal]
    ELSE IF index <= 0 /\ Len(items) > 0
         THEN [exc |-> NoExc, result |-> items[1]]
         ELSE [exc |-> IndexError, result |-> NoneVal]

EnumCalls(calls) == SelectSeq(calls, LAMBDA c : c.f \in {"Skip", "Next"})

\* C18: every proxy[i] issues exactly one Invoke(DISPID_NEWENUM), works on a
\* cursor that no _Collection and no earlier access holds, and leaves the
\* cursors of the _Collections where they were; so its outcome, a value or
\* IndexError, is a function of i and the enumerable alone, the same after any
\* sequence of index accesses and next() calls.
C18_IndexingHistoryIndependent ==
    /\ [](last.op = "__getitem__"
          => /\ Len(Invokes(last.calls)) = 1
             /\ last.calls[1].f = "Invoke"
             /\ last.calls[1].dispid = DISPID_NEWENUM
             /\ last.calls[1].obj = proxies[last.self]._comobj
             /\ \A i \in 1..Len(EnumCalls(last.calls)) :
                  /\ EnumCalls(last.calls)[i].obj > Len(enums)
                  /\ \A c \in 1..Len(colls) : colls[c].enum # EnumCalls(last.calls)[i].obj
             /\ last.calls[1].exc = NoExc
                => /\ last.exc = IndexOutcome(last.args[1].v).exc
                   /\ last.result = IndexOutcome(last.args[1].v).result)
    /\ [][last'.op = "__getitem__" => (enums' = enums /\ colls' = colls)]_vars

C18_Witness ==
    /\ last.op = "__getitem__"
    /\ last.args = <<IntVal(1)>>
    /\ last.exc = NoExc
    /\ last.result = items[2]
    /\ \E c \in 1..Len(colls) : nexts[c] >= 2 /\ enums[colls[c].enum] >= 2

\* a next() that comes after the one that raised StopIteration on its _Collection
LaterNext(l) == l.op = "next" /\ nexts[l.self] > Len(items) + 1

\* C19 as stated: after next() has raised StopIteration, every later next() on
\* that _Collection raises StopIteration again and makes no foreign call.
C19_ExhaustionFinalAndQuiet ==
    /\ [](LaterNext(last) => (last.exc = StopIteration /\ last.calls = <<>>))
    /\ [][ (/\ last.op = "next" /\ last.exc = StopIteration
            /\ last'.op = "next" /\ last'.self = last.self
            /\ nexts'[last.self] > nexts[last.self])
           => (last'.exc = StopIteration /\ last'.calls = <<>>) ]_vars

\* C19 amended: after next() has raised StopIteration, every later next() on
\* that _Collection raises StopIteration again and yields no element; each such
\* next() makes exactly one foreign call, Next(1) on the _Collection's own
\* cursor, which fetches nothing and leaves every cursor where it was.
C19_ExhaustionFinalOneFetch ==
    /\ [](LaterNext(last)
          => /\ last.exc = StopIteration
             /\ last.result = NoneVal
             /\ Len(last.calls) = 1
             /\ last.calls[1].f = "Next"
             /\ last.calls[1].obj = colls[last.self].enum
             /\ last.calls[1].ret = <<NoneVal, IntVal(0)>>)
    /\ [][ (/\ last.op = "next" /\ last.exc = StopIteration
            /\ last'.op = "next" /\ last'.self = last.self
            /\ nexts'[last.self] > nexts[last.self])
           => /\ last'.exc = StopIteration
              /\ Len(last'.calls) = 1
              /\ last'.calls[1].f = "Next"
              /\ enums' = enums ]_vars

C19_Witness ==
    /\ LaterNext(last)
    /\ Len(items) = 2
    /\ nexts[last.self] = 4
    /\ last.exc = StopIteration
    /\ Len(last.calls) = 1

\* C20: for every index <= 0, proxy[index] calls no Skip on its new cursor,
\* only Next(1); it returns the first element when the enumerable is non-empty
\* and raises IndexError only when it is empty.
C20_NonPositiveIndexIsFirst ==
    (/\ last.op = "__getitem__"
     /\ last.args[1].v <= 0
     /\ last.calls[1].exc = NoExc)
    => /\ Len(last.calls) = 2
       /\ last.calls[2].f = "Next"
       /\ \A i \in 1..Len(last.calls) : last.calls[i].f # "Skip"
       /\ Len(items) > 0 => (last.exc = NoExc /\ last.result = items[1])
       /\ Len(items) = 0 => last.exc = IndexError
       /\ last.exc = IndexError => Len(items) = 0

C20_Witness ==
    /\ last.op = "__getitem__"
    /\ last.args = <<IntVal(-2)>>
    /\ Len(items) = MaxLen
    /\ last.exc = NoExc
    /\ last.result = items[1]

====
